---- MODULE Spec2Model ----
(***************************************************************************)
(* AppSec pipeline of dd-trace-js: the event reporter with its bounded     *)
(* backlog and flush lock (appsec/reporter.js, src/unnamed/part_000) and   *)
(* the WAF callback (appsec/callbacks/ddwaf.js), and the trace context     *)
(* injection of the aws-sdk Lambda service (src/unnamed/part_001).         *)
(***************************************************************************)
EXTENDS Integers, Sequences, FiniteSets, TLC

VARIABLES
  events,      \* reporter: the backlog, `const events = new Set()`
  lock,        \* reporter: `let lock = false`
  requests,    \* every request() call made by flush: [batch, state]
  nextId,      \* next fresh event object (uuid() / object identity)
  spanTags,    \* tags set on each span by activeSpan.setTag
  lastOp,      \* the call that just ran, what it returned, whether it threw
  rules,       \* ddwaf: the rule list the WAFCallback was constructed from
  subs,        \* ddwaf: Gateway.manager.addSubscription calls, in order
  ruleCache,   \* ddwaf: ids in this.ruleCache
  wafContextCache, \* ddwaf: this.wafContextCache, key -> wafContext
  nextWafContext,  \* ddwaf: next fresh result of ddwaf.createContext()
  subscriptionGroups, \* ddwaf: the constructor's set of fingerprints
  runs,        \* ddwaf: the wafContext.run calls so far, <<wafContext, store>>
  createCalls, \* ddwaf: the keys ddwaf.createContext() was called for so far
  reqHeaders,  \* gateway: the headers published in the current context
  request      \* lambda: the AWS request handed to requestInject

vars == <<events, lock, requests, nextId, spanTags, lastOp,
          rules, subs, ruleCache, wafContextCache, nextWafContext,
          subscriptionGroups, runs, createCalls, reqHeaders, request>>

reporterVars == <<events, lock, requests, nextId, spanTags>>
wafVars == <<rules, subs, ruleCache, wafContextCache, nextWafContext,
             subscriptionGroups, runs, createCalls>>
envVars == <<reqHeaders, request>>

----------------------------------------------------------------------------
(* Bounds of the model *)

\* the backlog bound, 1e6 in the source, scaled down
MAX_EVENT_BACKLOG == 2
\* number of event objects ever created in one run
MaxEvents == 4
\* number of distinct spans that can be active
NumSpans == 1

Spans == 1..NumSpans
NoSpan == 0
Tags == {"manual.keep", "appsec.event"}

\* ambient inputs of reportAttack
HttpInputs == {"nocontext", "resolved", "noheaders"}
Tracers == {"noop", "real"}

\* request header names (lower-cased by node) and values the model draws from
HeaderNames == {"host", "cookie", "user-agent", "x-forwarded-for"}
HeaderValues == {"", "v"}
HeaderMaps == UNION {[S -> HeaderValues] : S \in SUBSET HeaderNames}

\* the headers of the request the reporter's own specification runs in
SampleHeaders == [n \in {"host", "cookie", "user-agent"} |-> "v"]

\* the request handed to the AWS SDK while the reporter or the WAF runs
NoRequest == [operation |-> "none"]

----------------------------------------------------------------------------
(* reporter.js *)

\* reportAttack's early return: `if (events.size > MAX_EVENT_BACKLOG) return`
BacklogRefuses(size) == size > MAX_EVENT_BACKLOG

Range(s) == {s[i] : i \in DOMAIN s}

HEADERS_TO_SEND ==
  <<"client-ip", "forwarded-for", "forwarded", "referer", "true-client-ip",
    "user-agent", "via", "x-client-ip", "x-cluster-client-ip",
    "x-forwarded-for", "x-forwarded", "x-real-ip">>

\* every request header sent
SendAllHeaders(headers) == [n \in DOMAIN headers |-> <<headers[n]>>]

\* getHeadersToSend: the allow-listed names whose value is truthy, each
\* with its value wrapped in an array
getHeadersToSend(headers) ==
  [n \in {HEADERS_TO_SEND[i] : i \in
            {j \in DOMAIN HEADERS_TO_SEND :
               /\ HEADERS_TO_SEND[j] \in DOMAIN headers
               /\ headers[HEADERS_TO_SEND[j]] # ""}} |-> <<headers[n]>>]

\* resolveHTTPAddresses: no context gives {}; a context whose headers were
\* never published fails on `headers.host`, and `new URL(path, 'http://')`
\* fails for an empty Host header; otherwise the request facts.
ResolveThrows(http) ==
  \/ http = "noheaders"
  \/ /\ http = "resolved"
     /\ "host" \in DOMAIN reqHeaders
     /\ reqHeaders["host"] = ""

\* getTracerData: the no-op tracer's scope carries no configuration, so
\* reading scope._config.service (or Object.entries of its missing tags)
\* fails before any span is touched.
TracerThrows(tracer) == tracer = "noop"

\* the span marked as kept but not as a security event
TagSpanKeepOnly(tags, span) ==
  IF span = NoSpan THEN tags
  ELSE [tags EXCEPT ![span] = @ \cup {"manual.keep"}]

\* getTracerData's tagging of the active span
TagSpan(tags, span) ==
  IF span = NoSpan THEN tags
  ELSE [tags EXCEPT ![span] = @ \cup {"manual.keep", "appsec.event"}]

\* reportAttack as a function of the reporter state and the ambient inputs
reportAttack(ev, nid, tags, http, tracer, span) ==
  IF BacklogRefuses(Cardinality(ev))
    THEN [events |-> ev, nextId |-> nid, spanTags |-> tags,
          ret |-> {}, threw |-> FALSE]
  ELSE IF ResolveThrows(http) \/ TracerThrows(tracer)
    THEN [events |-> ev, nextId |-> nid, spanTags |-> tags,
          ret |-> {}, threw |-> TRUE]
  ELSE LET event == [id |-> nid, span |-> span, http |-> http,
                      headers |-> IF http = "resolved"
                                    THEN getHeadersToSend(reqHeaders)
                                    ELSE << >>]
       IN [events |-> ev \cup {event}, nextId |-> nid + 1,
           spanTags |-> TagSpan(tags, span),
           ret |-> {event}, threw |-> FALSE]

\* a direct call of reportAttack
ReportAttack ==
  /\ nextId <= MaxEvents
  /\ \E http \in HttpInputs, tracer \in Tracers, span \in Spans \cup {NoSpan} :
       /\ tracer = "noop" => span = NoSpan
       /\ LET r == reportAttack(events, nextId, spanTags, http, tracer, span)
          IN /\ events' = r.events
             /\ nextId' = r.nextId
             /\ spanTags' = r.spanTags
             /\ lastOp' = [op |-> "reportAttack", ret |-> r.ret, threw |-> r.threw]
  /\ UNCHANGED <<lock, requests>>
  /\ UNCHANGED wafVars
  /\ UNCHANGED envVars

\* flush entered although a transmission is outstanding
FlushSkipsIgnoringLock(l, ev) == ev = {}

\* flush entered although the backlog is empty
FlushSkipsOnlyLock(l, ev) == l

\* flush giving up on a backlog that is over its bound
FlushSkipsFullBacklog(l, ev) ==
  l \/ ev = {} \/ Cardinality(ev) > MAX_EVENT_BACKLOG

\* flush's early return: `if (lock || !events.size) return`
FlushSkips(l, ev) == l \/ ev = {}

\* the delete loop left out
DrainedNothing(ev, eventsArray) == ev

\* what flush leaves in the backlog after the delete loop
Drained(ev, eventsArray) == ev \ eventsArray

\* flush(): caller is "flush" (manual) or "tick" (the scheduler's timer);
\* exporter says whether global._ddtrace._tracer._exporter._writer._url
\* can be read.
flush(caller, exporter) ==
  IF FlushSkips(lock, events)
    THEN /\ lastOp' = [op |-> caller, ret |-> {}, threw |-> FALSE]
         /\ UNCHANGED reporterVars
  ELSE LET eventsArray == events
       IN /\ events' = Drained(events, eventsArray)
          /\ IF exporter = "absent"
               THEN /\ lastOp' = [op |-> caller, ret |-> {}, threw |-> TRUE]
                    /\ UNCHANGED <<lock, requests>>
               ELSE /\ lock' = TRUE
                    /\ requests' = Append(requests,
                                     [batch |-> eventsArray, state |-> "pending"])
                    /\ lastOp' = [op |-> caller, ret |-> {}, threw |-> FALSE]
          /\ UNCHANGED <<nextId, spanTags>>

Flush ==
  /\ Len(requests) <= MaxEvents
  /\ \E exporter \in {"present", "absent"} : flush("flush", exporter)
  /\ UNCHANGED wafVars
  /\ UNCHANGED envVars

\* `new Scheduler(flush, FLUSH_INTERVAL)`: the timer calls flush
SchedulerTick ==
  /\ Len(requests) <= MaxEvents
  /\ \E exporter \in {"present", "absent"} : flush("tick", exporter)
  /\ UNCHANGED wafVars
  /\ UNCHANGED envVars

\* the lock released on success only
LockKeptOnError(err) == err

\* the lock after the request callback ran
LockAfterCallback(err) == FALSE

\* a failed batch put back into the backlog
EventsRequeuedOnError(ev, batch, err) == IF err THEN ev \cup batch ELSE ev

\* the backlog after the request callback ran
EventsAfterCallback(ev, batch, err) == ev

\* the callback handed to request(): `(err, res, status) => { lock = false ... }`
Callback(i, err) ==
  /\ i \in 1..Len(requests)
  /\ requests[i].state = "pending"
  /\ lock' = LockAfterCallback(err)
  /\ events' = EventsAfterCallback(events, requests[i].batch, err)
  /\ requests' = [requests EXCEPT ![i].state = IF err THEN "error" ELSE "done"]
  /\ lastOp' = [op |-> "callback", ret |-> {}, threw |-> FALSE]
  /\ UNCHANGED <<nextId, spanTags>>
  /\ UNCHANGED wafVars
  /\ UNCHANGED envVars

Complete == \E i \in 1..Len(requests), err \in BOOLEAN : Callback(i, err)

----------------------------------------------------------------------------
(* The reporter's specification *)

Init ==
  /\ events = {}
  /\ lock = FALSE
  /\ requests = <<>>
  /\ nextId = 1
  /\ spanTags = [s \in Spans |-> {}]
  /\ lastOp = [op |-> "init", ret |-> {}, threw |-> FALSE]
  /\ rules = <<>>
  /\ subs = <<>>
  /\ ruleCache = {}
  /\ wafContextCache = << >>
  /\ nextWafContext = 1
  /\ subscriptionGroups = {}
  /\ runs = {}
  /\ createCalls = {}
  /\ reqHeaders = SampleHeaders
  /\ request = NoRequest

Next == ReportAttack \/ Flush \/ SchedulerTick \/ Complete

Spec == Init /\ [][Next]_vars

\* the transport always calls back
FairSpec == Spec /\ WF_vars(Complete)

\* the transport always calls back and the scheduler's timer keeps firing
LiveSpec == Spec /\ WF_vars(Complete) /\ WF_vars(SchedulerTick)

----------------------------------------------------------------------------
(* Properties of the reporter *)

Pending == {i \in 1..Len(requests) : requests[i].state = "pending"}

IsFlushCall(op) == op \in {"flush", "tick"}

\* C1: after any sequence of reportAttack calls, flushes and transport
\* completions the backlog holds at most MAX_EVENT_BACKLOG events.
C1_BacklogWithinBound == Cardinality(events) <= MAX_EVENT_BACKLOG

\* C2: a reportAttack call made while the backlog size is at or over
\* MAX_EVENT_BACKLOG returns undefined and changes neither the backlog nor
\* any span's tags.
C2_RefusedAtBound ==
  [][(lastOp'.op = "reportAttack" /\ Cardinality(events) >= MAX_EVENT_BACKLOG)
       => (/\ lastOp'.ret = {}
           /\ events' = events
           /\ spanTags' = spanTags)]_vars

\* C3: in every reachable state at most one request issued by flush is
\* still waiting for its completion callback.
C3_OneFlushInFlight == Cardinality(Pending) <= 1

\* a timer tick found a transmission outstanding and events waiting
C3_Witness ==
  /\ lastOp.op = "tick"
  /\ Cardinality(Pending) = 1
  /\ events # {}

\* C4: a flush that starts a transmission sends exactly the backlog it found
\* and leaves the backlog empty; while that transmission is in flight its
\* batch does not change, nothing leaves the backlog, and the events enqueued
\* meanwhile are outside the batch and still in the backlog after completion.
C4_FlushTakesSnapshot ==
  [][/\ Len(requests') > Len(requests)
          => /\ requests'[Len(requests')].batch = events
             /\ events' = {}
     /\ \A i \in Pending :
          /\ requests'[i].batch = requests[i].batch
          /\ events \subseteq events'
          /\ requests'[i].batch \cap events' = {}]_vars

\* a transmission completed and events enqueued during it are in the backlog
C4_Witness ==
  /\ lastOp.op = "callback"
  /\ events # {}
  /\ \E i \in 1..Len(requests) : requests[i].state = "done"

\* C5: a flush call made while the lock is set or the backlog is empty
\* changes neither the backlog nor the lock and starts no transmission, and
\* a transmission is only ever started by a flush call that found the lock
\* clear and the backlog non-empty (a skipped tick is not replayed later).
C5_SkippedFlushIsNoop ==
  [][/\ (IsFlushCall(lastOp'.op) /\ (lock \/ events = {}))
          => (events' = events /\ lock' = lock /\ requests' = requests)
     /\ Len(requests') > Len(requests)
          => (IsFlushCall(lastOp'.op) /\ ~lock /\ events # {})
     /\ lastOp'.op = "callback" => Pending' \subseteq Pending]_vars

\* a manual flush was skipped because a transmission is outstanding
C5_Witness ==
  /\ lastOp.op = "flush"
  /\ ~lastOp.threw
  /\ lock
  /\ Pending # {}
  /\ events # {}

\* C6: no event is in two transmitted batches, and no event of a transmitted
\* batch is in the backlog, whether its transmission is pending, succeeded
\* or failed.
C6_AtMostOnce ==
  /\ \A i, j \in 1..Len(requests) :
       i # j => requests[i].batch \cap requests[j].batch = {}
  /\ \A i \in 1..Len(requests) : requests[i].batch \cap events = {}

\* a transmission failed, and a later one was started
C6_Witness ==
  /\ Len(requests) >= 2
  /\ requests[1].state = "error"
  /\ requests[1].batch # {}

\* C7: whenever the lock is set it is eventually cleared.
C7_FlushingReturnsToIdle == lock ~> ~lock

\* a transmission failed and the lock is clear again
C7_Witness ==
  /\ ~lock
  /\ \E i \in 1..Len(requests) : requests[i].state = "error"

\* C11: a reportAttack call that the backlog does not refuse enqueues and
\* returns an event, whatever ambient context is missing: no gateway
\* context, headers never published, or a no-op tracer.
C11_ReportSurvivesMissingContext ==
  [][(lastOp'.op = "reportAttack" /\ ~BacklogRefuses(Cardinality(events)))
       => (/\ ~lastOp'.threw
           /\ lastOp'.ret # {}
           /\ lastOp'.ret \subseteq events')]_vars

\* C15: every event in the backlog that was built under an active span has
\* that span tagged 'manual.keep' and 'appsec.event', and a reportAttack
\* call that returns no event tags no span.
C15_EnqueuedEventsAreTagged ==
  [][/\ \A e \in events' : e.span # NoSpan => Tags \subseteq spanTags'[e.span]
     /\ (lastOp'.op = "reportAttack" /\ lastOp'.ret = {})
          => spanTags' = spanTags]_vars

\* an event built under an active span is in the backlog
C15_Witness ==
  /\ lastOp.op = "reportAttack"
  /\ \E e \in lastOp.ret : e \in events /\ e.span \in Spans

\* C16: with the timer firing and every transmission completing, every
\* event in the backlog eventually leaves it.
C16_BacklogEventuallyDrained ==
  \A id \in 1..MaxEvents :
    (\E e \in events : e.id = id) ~> ~(\E e \in events : e.id = id)

\* a tick drained what earlier ticks had to leave while a transmission was
\* outstanding
C16_Witness ==
  /\ lastOp.op = "tick"
  /\ Len(requests) >= 2
  /\ requests[1].state # "pending"
  /\ requests[Len(requests)].state = "pending"
  /\ events = {}

\* C17: a step that removes events from the backlog hands exactly the
\* backlog to the transport and sets the lock.
C17_DrainedEventsAreSent ==
  [][~(events \subseteq events')
       => (/\ Len(requests') = Len(requests) + 1
           /\ requests'[Len(requests')].batch = events
           /\ requests'[Len(requests')].state = "pending"
           /\ lock')]_vars

----------------------------------------------------------------------------
(* The reporter run on any request headers *)

HeadersInit ==
  /\ events = {}
  /\ lock = FALSE
  /\ requests = <<>>
  /\ nextId = 1
  /\ spanTags = [s \in Spans |-> {}]
  /\ lastOp = [op |-> "init", ret |-> {}, threw |-> FALSE]
  /\ rules = <<>>
  /\ subs = <<>>
  /\ ruleCache = {}
  /\ wafContextCache = << >>
  /\ nextWafContext = 1
  /\ subscriptionGroups = {}
  /\ runs = {}
  /\ createCalls = {}
  /\ reqHeaders \in HeaderMaps
  /\ request = NoRequest

HeadersNext == ReportAttack

HeadersSpec == HeadersInit /\ [][HeadersNext]_vars

\* C12: in every event the keys of context.http.request.headers are
\* allow-listed names, and each value is the one-element array of the
\* request's value for that name.
C12_OnlyAllowListedHeaders ==
  \A e \in events :
    /\ DOMAIN e.headers \subseteq Range(HEADERS_TO_SEND)
    /\ \A n \in DOMAIN e.headers :
         n \in DOMAIN reqHeaders /\ e.headers[n] = <<reqHeaders[n]>>

\* an event was built for a request that carries a cookie, an allow-listed
\* header and an empty allow-listed header
C12_Witness ==
  /\ "cookie" \in DOMAIN reqHeaders /\ reqHeaders["cookie"] = "v"
  /\ "user-agent" \in DOMAIN reqHeaders /\ reqHeaders["user-agent"] = "v"
  /\ "x-forwarded-for" \in DOMAIN reqHeaders /\ reqHeaders["x-forwarded-for"] = ""
  /\ \E e \in events : e.http = "resolved" /\ DOMAIN e.headers = {"user-agent"}

----------------------------------------------------------------------------
(* callbacks/ddwaf.js: construction *)

\* Addresses are numbered in the lexicographic order of their names, which
\* is the order Array.prototype.sort puts them in.
NumAddresses == 3
AddressNames == 1..NumAddresses

\* `new Set(Object.values(Addresses))`: every name but the last is registered
validAddressSet == 1..(NumAddresses - 1)

\* An input's address string, as its colon-separated segments:
\* <<1>> is "a1", <<2, 3>> is "a2:a3".  The first and the unregistered name
\* come bare, the other registered names with a key path after a colon.
InputStrings ==
  {IF a \in validAddressSet /\ a > 1 THEN <<a, NumAddresses>> ELSE <<a>> :
     a \in AddressNames}

MaxInputs == 2
MaxConditions == 2
MaxRules == 2

SeqsUpTo(S, n) == UNION {[1..k -> S] : k \in 1..n}

\* condition.parameters.inputs, as the list of the inputs' address strings
Conditions == SeqsUpTo(InputStrings, MaxInputs)

\* rule.conditions
ConditionLists == SeqsUpTo(Conditions, MaxConditions)


\* `input.address.split(':', 2)[0]`
SplitAddress(address) == address[1]

RECURSIVE Dedupe(_)
\* `Array.from(new Set(addresses))`: first occurrences, in order
Dedupe(s) ==
  IF s = <<>> THEN <<>>
  ELSE LET init == Dedupe(SubSeq(s, 1, Len(s) - 1))
           last == s[Len(s)]
       IN IF last \in Range(init) THEN init ELSE Append(init, last)

RECURSIVE Insert(_, _)
Insert(s, x) ==
  IF s = <<>> THEN <<x>>
  ELSE IF x < s[1] THEN <<x>> \o s
  ELSE <<s[1]>> \o Insert(Tail(s), x)

RECURSIVE Sort(_)
\* `addresses.sort()`
Sort(s) == IF s = <<>> THEN <<>> ELSE Insert(Sort(Tail(s)), s[1])

\* the fingerprint taken without sorting
HashUnsorted(addresses) == addresses

\* `addresses.sort().join(',')`: the sorted names (no name holds a comma)
Hash(addresses) == Sort(addresses)

\* `addresses.every((address) => validAddressSet.has(address))`
AllValid(inputs) ==
  \A i \in DOMAIN inputs : SplitAddress(inputs[i]) \in validAddressSet

RECURSIVE LoadConditions(_, _, _)
\* the loop over rule.conditions (lines 51-67) from condition k on;
\* st is [groups |-> subscriptionGroups, subs |-> addSubscription calls]
LoadConditions(rule, k, st) ==
  IF k > Len(rule.conditions) THEN st
  ELSE LET inputs == rule.conditions[k]
       IN IF ~AllValid(inputs) THEN st   \* log.warn, break
          ELSE LET addresses ==
                     Dedupe([i \in DOMAIN inputs |-> SplitAddress(inputs[i])])
                   hash == Hash(addresses)
               IN IF hash \in st.groups
                    THEN LoadConditions(rule, k + 1, st)
                    ELSE LoadConditions(rule, k + 1,
                           [groups |-> st.groups \cup {hash},
                            subs |-> Append(st.subs,
                                       [addresses |-> Sort(addresses),
                                        rule |-> rule.id])])

\* One iteration of the constructor's loop over rules.rules (lines 48-68).
\* The state after the iterations for r1..rn is the state `new
\* WAFCallback({rules: [r1..rn]})` leaves, so every state of CtorSpec is a
\* finished construction from the list in `rules`.
LoadRule(rule) ==
  /\ rules' = Append(rules, rule)
  /\ ruleCache' = ruleCache \cup {rule.id}
  /\ LET st == LoadConditions(rule, 1,
                 [groups |-> subscriptionGroups, subs |-> subs])
     IN /\ subscriptionGroups' = st.groups
        /\ subs' = st.subs
  /\ lastOp' = [op |-> "construct", ret |-> {}, threw |-> FALSE]
  /\ UNCHANGED <<wafContextCache, nextWafContext, runs, createCalls>>
  /\ UNCHANGED reporterVars
  /\ UNCHANGED envVars

NewWAFCallback ==
  /\ Len(rules) < MaxRules
  /\ \E cs \in ConditionLists :
       LoadRule([id |-> Len(rules) + 1, conditions |-> cs])

CtorNext == NewWAFCallback

CtorSpec == Init /\ [][CtorNext]_vars

----------------------------------------------------------------------------
(* callbacks/ddwaf.js: the callback *)

NumKeys == 2
\* store.get('context') values that are objects
Keys == 1..NumKeys
\* action called without a store
NoStore == -1
\* store.get('context') is undefined
NoKey == 0

MaxMatches == 2
MaxWafContexts == 3

RECURSIVE LoadRules(_, _, _)
\* the constructor's loop over rules.rules from rule r on
LoadRules(rs, r, st) ==
  IF r > Len(rs) THEN st
  ELSE LoadRules(rs, r + 1, LoadConditions(rs[r], 1, st))

\* the rule list the callback under test is constructed from
WafRules == <<[id |-> 1, conditions |-> <<<<<<1>>>>>>]>>

\* a rule id the matcher reports although no loaded rule has it
UnknownRule == Len(WafRules) + 1

\* what wafContext.run can do: throw, return a result without action, or a
\* result with action whose data is not JSON or parses to a list of points,
\* each point given by its rule id
RunOutcomes ==
  [kind : {"throws", "noaction", "unparsable"}, data : {<<>>}]
  \cup [kind : {"matches"},
        data : UNION {[1..n -> 1..UnknownRule] : n \in 0..MaxMatches}]

RECURSIVE ApplyPoints(_, _, _, _, _, _)
\* applyResult's loop (lines 104-127) from point k on; st is the reporter's
\* state and the number of Reporter.reportAttack calls made so far.
\* `rule.name` fails for an id missing from ruleCache and a failing
\* reportAttack ends the loop as well; action's catch takes both.
ApplyPoints(data, k, st, http, tracer, span) ==
  IF k > Len(data) THEN st
  ELSE IF data[k] \notin ruleCache THEN st
  ELSE LET r == reportAttack(st.events, st.nextId, st.spanTags,
                             http, tracer, span)
       IN IF r.threw THEN [st EXCEPT !.calls = @ + 1, !.reportThrew = TRUE]
          ELSE ApplyPoints(data, k + 1,
                 [events |-> r.events, nextId |-> r.nextId,
                  spanTags |-> r.spanTags, calls |-> st.calls + 1,
                  reportThrew |-> FALSE],
                 http, tracer, span)

\* whether a failing ddwaf.createContext() reaches action's caller:
\* lines 81 and 88 stand before the try block
CreateContextPropagates(created) == ~created

\* the cache looked up under one slot whatever the key
CacheKeyShared(store) == IF store \in Keys THEN 1 ELSE store

\* the key action looks the matcher state up under: store.get('context')
CacheKey(store) == store

\* the cached matcher state never reused
CacheHitNever(key) == FALSE

\* `this.wafContextCache.has(key)`, for a key that is an object
CacheHit(key) == key \in DOMAIN wafContextCache

\* action(params, store), called by the Gateway through `method`; lastOp
\* keeps the call's store and matcher outcome, whether createContext was
\* called, how many Reporter.reportAttack calls were made and whether one
\* of them threw
action(store, created, run, http, tracer, span) ==
  LET key == CacheKey(store)
      cached == key \in Keys /\ CacheHit(key)
      wafContext == IF cached THEN wafContextCache[key] ELSE nextWafContext
  IN /\ cached => created
     /\ createCalls' = IF cached THEN createCalls
                       ELSE createCalls \cup ({store} \cap Keys)
     /\ IF ~cached /\ CreateContextPropagates(created)
          THEN /\ lastOp' = [op |-> "action", ret |-> {}, threw |-> TRUE,
                             store |-> store, run |-> run,
                             createCalled |-> TRUE, calls |-> 0,
                             reportThrew |-> FALSE]
               /\ UNCHANGED <<wafContextCache, nextWafContext, runs>>
               /\ UNCHANGED <<events, nextId, spanTags>>
          ELSE /\ IF cached
                    THEN UNCHANGED <<wafContextCache, nextWafContext>>
                    ELSE /\ nextWafContext' = nextWafContext + 1
                         /\ wafContextCache' =
                              IF key \in Keys
                                THEN [k \in DOMAIN wafContextCache \cup {key} |->
                                        IF k = key THEN nextWafContext
                                        ELSE wafContextCache[k]]
                                ELSE wafContextCache
               /\ runs' = runs \cup {<<wafContext, store>>}
               /\ LET st0 == [events |-> events, nextId |-> nextId,
                              spanTags |-> spanTags, calls |-> 0,
                              reportThrew |-> FALSE]
                      st == IF run.kind = "matches"
                              THEN ApplyPoints(run.data, 1, st0,
                                               http, tracer, span)
                              ELSE st0
                  IN /\ events' = st.events
                     /\ nextId' = st.nextId
                     /\ spanTags' = st.spanTags
                     /\ lastOp' = [op |-> "action", ret |-> {}, threw |-> FALSE,
                                   store |-> store, run |-> run,
                                   createCalled |-> ~cached,
                                   calls |-> st.calls,
                                   reportThrew |-> st.reportThrew]

\* whether the call reaches Reporter.reportAttack, so that the ambient
\* request and tracer matter
Reports(run) ==
  run.kind = "matches" /\ run.data # <<>> /\ run.data[1] \in ruleCache

WafAction ==
  /\ nextWafContext <= MaxWafContexts
  /\ \E store \in Keys \cup {NoStore, NoKey}, created \in BOOLEAN,
        run \in RunOutcomes, http \in HttpInputs, tracer \in Tracers,
        span \in Spans \cup {NoSpan} :
       /\ nextId + Len(run.data) - 1 <= MaxMatches
       /\ tracer = "noop" => span = NoSpan
       /\ ~Reports(run) => (http = "nocontext" /\ tracer = "real" /\ span = NoSpan)
       /\ action(store, created, run, http, tracer, span)
  /\ UNCHANGED <<lock, requests>>
  /\ UNCHANGED <<rules, subs, ruleCache, subscriptionGroups>>
  /\ UNCHANGED envVars

\* clear(): `this.libAppSec` is never assigned, so `this.libAppSec.dispose()`
\* fails and the two statements after it do not run
WafClear ==
  /\ lastOp' = [op |-> "clear", ret |-> {}, threw |-> TRUE]
  /\ UNCHANGED reporterVars
  /\ UNCHANGED wafVars
  /\ UNCHANGED envVars

\* the state `new WAFCallback({rules: WafRules})` leaves
WafInit ==
  /\ events = {}
  /\ lock = FALSE
  /\ requests = <<>>
  /\ nextId = 1
  /\ spanTags = [s \in Spans |-> {}]
  /\ lastOp = [op |-> "construct", ret |-> {}, threw |-> FALSE]
  /\ rules = WafRules
  /\ LET st == LoadRules(WafRules, 1, [groups |-> {}, subs |-> <<>>])
     IN /\ subscriptionGroups = st.groups
        /\ subs = st.subs
  /\ ruleCache = {WafRules[i].id : i \in DOMAIN WafRules}
  /\ wafContextCache = << >>
  /\ nextWafContext = 1
  /\ runs = {}
  /\ createCalls = {}
  /\ reqHeaders = SampleHeaders
  /\ request = NoRequest

WafNext == WafAction \/ WafClear

WafSpec == WafInit /\ [][WafNext]_vars

----------------------------------------------------------------------------
(* Properties of the construction *)

\* every input of every condition of the rule names a registered address
RuleValid(rule) ==
  \A k \in DOMAIN rule.conditions : AllValid(rule.conditions[k])

\* the address set a condition needs
ConditionAddresses(inputs) == {SplitAddress(inputs[i]) : i \in DOMAIN inputs}

\* C8: a rule with a condition input whose address is not registered makes
\* no addSubscription call, wherever that condition stands in the rule, and
\* every condition of a rule whose addresses are all registered has its
\* address set subscribed.
C8_InvalidRuleSubscribesNothing ==
  /\ \A i \in DOMAIN subs : RuleValid(rules[subs[i].rule])
  /\ \A r \in DOMAIN rules :
       RuleValid(rules[r]) =>
         \A k \in DOMAIN rules[r].conditions :
           \E i \in DOMAIN subs :
             Range(subs[i].addresses) = ConditionAddresses(rules[r].conditions[k])

\* C9: no two addSubscription calls of one WAFCallback carry the same
\* address set.
C9_DistinctAddressSets ==
  \A i, j \in DOMAIN subs :
    i # j => Range(subs[i].addresses) # Range(subs[j].addresses)

\* two rules need the same two addresses, listed in different orders, and
\* one subscription was made
C9_Witness ==
  /\ Len(rules) = 2
  /\ Len(subs) = 1
  /\ Len(subs[1].addresses) = 2
  /\ \A r \in 1..2 : Len(rules[r].conditions) = 1 /\ RuleValid(rules[r])
  /\ rules[1].conditions[1] # rules[2].conditions[1]
  /\ ConditionAddresses(rules[1].conditions[1])
       = ConditionAddresses(rules[2].conditions[1])

----------------------------------------------------------------------------
(* Properties of the callback *)

\* C10: no call of action throws to its caller, whatever fails during the
\* evaluation.
C10_ActionNeverThrows == lastOp.op = "action" => ~lastOp.threw

\* C13 as stated: ddwaf.createContext is called at most once for a key.
C13_CreateContextCalledOnce ==
  [][(lastOp'.op = "action" /\ lastOp'.store \in Keys /\ lastOp'.createCalled)
       => lastOp'.store \notin createCalls]_vars

\* C13: createContext is called for a key only while no matcher state is
\* cached for it, and all runs for one key use one matcher state.
C13_OneMatcherStatePerContext ==
  [][/\ (lastOp'.op = "action" /\ lastOp'.store \in DOMAIN wafContextCache)
          => ~lastOp'.createCalled
     /\ \A p, q \in runs' :
          (p[2] \in Keys /\ p[2] = q[2]) => p[1] = q[1]]_vars

\* a call found the matcher state an earlier call of its context created
C13_Witness ==
  /\ lastOp.op = "action"
  /\ lastOp.store \in Keys
  /\ ~lastOp.createCalled
  /\ lastOp.store \in createCalls

\* C14: a call whose matcher run reports matches makes one reportAttack call
\* per match, at least for every match of a loaded rule, also after a match
\* whose rule is not loaded; a call without matches makes none.
C14_OneReportPerMatch ==
  (lastOp.op = "action" /\ ~lastOp.threw /\ ~lastOp.reportThrew) =>
    IF lastOp.run.kind = "matches"
      THEN /\ lastOp.calls <= Len(lastOp.run.data)
           /\ lastOp.calls >=
                Cardinality({k \in DOMAIN lastOp.run.data :
                               lastOp.run.data[k] \in ruleCache})
      ELSE lastOp.calls = 0

\* C18: after clear() no key has a cached matcher state and no Gateway
\* subscription is left.
C18_ClearTearsDown ==
  lastOp.op = "clear" => (DOMAIN wafContextCache = {} /\ subs = <<>>)

\* C19: runs made for different stores never use the same matcher state.
C19_NoSharedMatcherState ==
  \A p, q \in runs : p[2] # q[2] => p[1] # q[1]

\* calls of two contexts interleaved, the last one reusing its own state
C19_Witness ==
  /\ lastOp.op = "action"
  /\ lastOp.store \in Keys
  /\ ~lastOp.createCalled
  /\ \E p, q \in runs : p[2] \in Keys /\ q[2] \in Keys /\ p[2] # q[2]

----------------------------------------------------------------------------
(* aws-sdk Lambda service: requestInject (src/unnamed/part_001) *)

\* a JSON value as JSON.parse builds it: its type and, for an object, its
\* properties (an array's elements are left out, f holds the properties an
\* assignment adds to it)
J(t, f) == [t |-> t, f |-> f]

JNull == J("null", << >>)

\* a falsy primitive other than null: false, 0, ""
JFalsy == J("falsy", << >>)

\* a truthy primitive: a non-empty string, a non-zero number, true
JStr == J("str", << >>)

JArr == J("arr", << >>)

JObj(f) == J("obj", f)

\* the objects with some of the properties in keys, vals[k] the values of k
Objects(keys, vals) ==
  UNION {{JObj(f) : f \in {g \in [D -> UNION {vals[k] : k \in keys}] :
                             \A k \in D : g[k] \in vals[k]}} :
         D \in SUBSET keys}

Primitives == {JNull, JFalsy, JStr}

\* what a caller may have put under `custom`
CustomValues ==
  Primitives \cup {JArr} \cup
  Objects({"_datadog", "k"},
          [k \in {"_datadog", "k"} |->
             IF k = "_datadog" THEN {JNull, JStr, JObj(<< >>)} ELSE {JStr}])

\* what a caller's ClientContext may decode to
ContextValues ==
  Primitives \cup {JArr} \cup
  Objects({"custom", "env"},
          [k \in {"custom", "env"} |->
             IF k = "custom" THEN CustomValues ELSE {JStr}])

\* request.params.ClientContext: absent, the empty string, a string that
\* does not decode to JSON text, or the base64 of a JSON text; canonical
\* says the text is the one JSON.stringify writes for its value
ContextString(kind, canonical, value) ==
  [kind |-> kind, canonical |-> canonical, value |-> value]

NoClientContext == ContextString("absent", TRUE, JNull)

ClientContexts ==
  {NoClientContext, ContextString("empty", TRUE, JNull),
   ContextString("garbage", TRUE, JNull)} \cup
  {ContextString("json", c, v) : c \in BOOLEAN, v \in ContextValues}

\* InvocationType; "" is the absent or empty one
InvocationTypes == {"", "RequestResponse", "Event", "DryRun"}

NoParams ==
  [present |-> FALSE, InvocationType |-> "", ClientContext |-> NoClientContext]

\* `request.params = {}`
EmptyParams ==
  [present |-> TRUE, InvocationType |-> "", ClientContext |-> NoClientContext]

Params ==
  {NoParams} \cup
  [present : {TRUE}, InvocationType : InvocationTypes,
   ClientContext : ClientContexts]

Requests == [operation : {"invoke", "getFunction"}, params : Params]

\* Buffer.from(ClientContext, 'base64').toString('utf-8'), then JSON.parse
ParseContext(cc) ==
  IF cc.kind = "json" THEN [threw |-> FALSE, value |-> cc.value]
  ELSE [threw |-> TRUE, value |-> JNull]

\* JSON.stringify: an object's properties, an array's elements only
RECURSIVE Stringify(_)
Stringify(v) ==
  IF v.t = "obj" THEN JObj([k \in DOMAIN v.f |-> Stringify(v.f[k])])
  ELSE J(v.t, << >>)

\* Buffer.from(JSON.stringify(clientContext)).toString('base64')
EncodeContext(v) == ContextString("json", TRUE, Stringify(v))

\* `o[k] = v`
SetKey(f, k, v) == [x \in DOMAIN f \cup {k} |-> IF x = k THEN v ELSE f[x]]

\* what tracer.inject writes into its carrier
Injected == JObj([k \in {"x-datadog-trace-id"} |-> JStr])

IsObject(v) == v.t \in {"obj", "arr"}

Truthy(v) == v.t \in {"str", "arr", "obj"}

\* the body of the try block: the ClientContext it assigns, or threw when a
\* statement before the assignment throws (the file is in strict mode, so an
\* assignment to a property of a primitive throws)
InjectContext(params, logThrows, injectThrows) ==
  LET cc      == params.ClientContext
      parsed  == ParseContext(cc)
      failed  == [threw |-> TRUE, ClientContext |-> cc]
  IN IF logThrows THEN failed
     ELSE IF cc.kind \notin {"absent", "empty"} /\ parsed.threw THEN failed
     ELSE
       LET clientContext == IF cc.kind \in {"absent", "empty"}
                              THEN JObj(<< >>) ELSE parsed.value
       IN IF ~IsObject(clientContext) THEN failed
          ELSE
            LET hasCustom == /\ "custom" \in DOMAIN clientContext.f
                             /\ Truthy(clientContext.f["custom"])
                custom == IF hasCustom THEN clientContext.f["custom"]
                          ELSE JObj(<< >>)
            IN IF ~IsObject(custom) \/ injectThrows THEN failed
               ELSE [threw |-> FALSE,
                     ClientContext |->
                       EncodeContext(
                         J(clientContext.t,
                           SetKey(clientContext.f, "custom",
                                  J(custom.t,
                                    SetKey(custom.f, "_datadog", Injected)))))]

\* the invocation type sent whatever InvocationType says
IsSyncAlways(params) == TRUE

\* `!request.params.InvocationType || ... === 'RequestResponse'`
isSyncInvocation(params) == params.InvocationType \in {"", "RequestResponse"}

\* requestInject(span, request, tracer): the request it leaves
requestInject(req, logThrows, injectThrows) ==
  IF req.operation # "invoke" THEN req
  ELSE
    LET params == IF req.params.present THEN req.params ELSE EmptyParams
    IN IF ~isSyncInvocation(params) THEN [req EXCEPT !.params = params]
       ELSE LET r == InjectContext(params, logThrows, injectThrows)
            IN [req EXCEPT !.params =
                  IF r.threw THEN params
                  ELSE [params EXCEPT !.ClientContext = r.ClientContext]]

\* a call of requestInject; no statement outside the try block can throw
RequestInject ==
  /\ \E logThrows \in BOOLEAN, injectThrows \in BOOLEAN :
       request' = requestInject(request, logThrows, injectThrows)
  /\ lastOp' = [op |-> "requestInject", ret |-> {}, threw |-> FALSE]
  /\ UNCHANGED reporterVars
  /\ UNCHANGED wafVars
  /\ UNCHANGED reqHeaders

LambdaInit ==
  /\ events = {}
  /\ lock = FALSE
  /\ requests = <<>>
  /\ nextId = 1
  /\ spanTags = [s \in Spans |-> {}]
  /\ lastOp = [op |-> "init", ret |-> {}, threw |-> FALSE]
  /\ rules = <<>>
  /\ subs = <<>>
  /\ ruleCache = {}
  /\ wafContextCache = << >>
  /\ nextWafContext = 1
  /\ subscriptionGroups = {}
  /\ runs = {}
  /\ createCalls = {}
  /\ reqHeaders = SampleHeaders
  /\ request \in Requests

LambdaNext == RequestInject

LambdaSpec == LambdaInit /\ [][LambdaNext]_vars

----------------------------------------------------------------------------
(* Properties of requestInject *)

\* the value a ClientContext decodes to, {} for none
ContextOf(cc) == IF cc.kind = "json" THEN cc.value ELSE JObj(<< >>)

\* every property of old but `skip` is in new with its value
KeepsKeys(old, new, skip) ==
  \A k \in DOMAIN old.f \ {skip} : k \in DOMAIN new.f /\ new.f[k] = old.f[k]

\* new is old but for custom._datadog
KeepsContext(old, new) ==
  /\ new.t = old.t
  /\ KeepsKeys(old, new, "custom")
  /\ "custom" \in DOMAIN old.f =>
       /\ "custom" \in DOMAIN new.f
       /\ Truthy(old.f["custom"]) =>
            /\ new.f["custom"].t = old.f["custom"].t
            /\ KeepsKeys(old.f["custom"], new.f["custom"], "_datadog")

\* C20: requestInject changes ClientContext only for 'invoke' with
\* InvocationType absent or 'RequestResponse', then keeps every key of the
\* old ClientContext but custom._datadog, changes nothing else of the
\* request's operation and InvocationType, and never throws.
C20_InjectFrame ==
  [][lastOp'.op = "requestInject" =>
       /\ ~lastOp'.threw
       /\ request'.operation = request.operation
       /\ request'.params.InvocationType = request.params.InvocationType
       /\ ~(/\ request.operation = "invoke"
            /\ request.params.InvocationType \in {"", "RequestResponse"})
            => request'.params.ClientContext = request.params.ClientContext
       /\ request'.params.ClientContext # request.params.ClientContext
            => /\ request'.params.ClientContext.kind = "json"
               /\ KeepsContext(ContextOf(request.params.ClientContext),
                               ContextOf(request'.params.ClientContext))]_vars

\* a synchronous invoke got the trace context next to the caller's own keys
C20_Witness ==
  /\ lastOp.op = "requestInject"
  /\ request.operation = "invoke"
  /\ request.params.InvocationType = "RequestResponse"
  /\ request.params.ClientContext.kind = "json"
  /\ LET v == request.params.ClientContext.value
     IN /\ DOMAIN v.f = {"custom", "env"}
        /\ DOMAIN v.f["custom"].f = {"_datadog", "k"}
        /\ v.f["custom"].f["_datadog"] = Injected

====
